---------------------------- MODULE Spec2Model ----------------------------
(***************************************************************************)
(* Micheline binary encoder of packages/taquito-michel-codec/src/binary.ts *)
(*                                                                         *)
(* Representation of the JavaScript values the encoder handles:            *)
(*   - an Expr is a record whose DOMAIN is the set of the object's own     *)
(*     properties, so that `"int" in expr` is "int" \in DOMAIN expr and    *)
(*     `expr.args === undefined` is "args" \notin DOMAIN expr; an array    *)
(*     of Exprs is the record [array |-> <<...>>];                         *)
(*   - a string whose content the code processes (int, string, bytes,      *)
(*     annots) is the sequence of its UTF-16 code units; a primitive name, *)
(*     which the code only looks up, is a TLA+ string;                     *)
(*   - a value handed to a Writer method is a JS value: Num(n), NaN or an  *)
(*     object/function (what an inherited property lookup returns);        *)
(*   - a Writer is its buffer, a sequence of numbers.                      *)
(***************************************************************************)
EXTENDS Integers, Sequences, FiniteSets, TLC

(***************************************************************************)
(* JS values                                                               *)
(***************************************************************************)
Num(n) == [t |-> "number", n |-> n]
NaN == [t |-> "NaN"]
JSObject == [t |-> "object"]
JSUndefined == [t |-> "undefined"]

NumArray(a) == [k \in 1..Len(a) |-> Num(a[k])]

\* `val | 0`: ToInt32.  A number is wrapped to 32 bits, signed, computed on
\* its two 16-bit halves; anything that is not a number (NaN, a function, an
\* object) converts to NaN and then to 0.
ToInt32(val) ==
    IF val.t = "number"
    THEN LET hi == (val.n \div 65536) % 65536
             lo == val.n % 65536
         IN  (IF hi >= 32768 THEN hi - 65536 ELSE hi) * 65536 + lo
    ELSE 0

\* `v & 0xff` on an int32
And255(v) == v % 256

\* `v >> k` on an int32: the arithmetic shift, floor(v / 2^k)
Shr(v, k) == v \div (2 ^ k)

(***************************************************************************)
(* const primitives, primTags                                              *)
(***************************************************************************)
primitives ==
    << "parameter", "storage", "code", "False", "Elt", "Left", "None", "Pair",
       "Right", "Some", "True", "Unit", "PACK", "UNPACK", "BLAKE2B", "SHA256", "SHA512", "ABS", "ADD",
       "AMOUNT", "AND", "BALANCE", "CAR", "CDR", "CHECK_SIGNATURE", "COMPARE", "CONCAT", "CONS",
       "CREATE_ACCOUNT", "CREATE_CONTRACT", "IMPLICIT_ACCOUNT", "DIP", "DROP", "DUP", "EDIV", "EMPTY_MAP",
       "EMPTY_SET", "EQ", "EXEC", "FAILWITH", "GE", "GET", "GT", "HASH_KEY", "IF", "IF_CONS", "IF_LEFT",
       "IF_NONE", "INT", "LAMBDA", "LE", "LEFT", "LOOP", "LSL", "LSR", "LT", "MAP", "MEM", "MUL", "NEG",
       "NEQ", "NIL", "NONE", "NOT", "NOW", "OR", "PAIR", "PUSH", "RIGHT", "SIZE", "SOME", "SOURCE",
       "SENDER", "SELF", "STEPS_TO_QUOTA", "SUB", "SWAP", "TRANSFER_TOKENS", "SET_DELEGATE", "UNIT",
       "UPDATE", "XOR", "ITER", "LOOP_LEFT", "ADDRESS", "CONTRACT", "ISNAT", "CAST", "RENAME", "bool",
       "contract", "int", "key", "key_hash", "lambda", "list", "map", "big_map", "nat", "option", "or",
       "pair", "set", "signature", "string", "bytes", "mutez", "timestamp", "unit", "operation",
       "address", "SLICE", "DIG", "DUG", "EMPTY_BIG_MAP", "APPLY", "chain_id", "CHAIN_ID", "LEVEL",
       "SELF_ADDRESS", "never", "NEVER", "UNPAIR", "VOTING_POWER", "TOTAL_VOTING_POWER", "KECCAK",
       "SHA3", "PAIRING_CHECK", "bls12_381_g1", "bls12_381_g2", "bls12_381_fr", "sapling_state",
       "sapling_transaction", "SAPLING_EMPTY_STATE", "SAPLING_VERIFY_UPDATE", "ticket", "TICKET",
       "READ_TICKET", "SPLIT_TICKET", "JOIN_TICKETS", "GET_AND_UPDATE" >>

\* The properties every object literal inherits from Object.prototype:
\* primTags is built by Object.assign({}, ...), so a lookup of one of these
\* names finds the inherited function (or, for __proto__, the prototype).
ObjectPrototypeKeys ==
    { "constructor", "hasOwnProperty", "isPrototypeOf", "propertyIsEnumerable",
      "toLocaleString", "toString", "valueOf", "__proto__",
      "__defineGetter__", "__defineSetter__", "__lookupGetter__", "__lookupSetter__" }

\* primTags[name]: the own property set by the last {[v]: i} with v = name
\* (the array indices are 0-based), else the inherited one, else undefined.
primTags(name) ==
    IF \E i \in 1..Len(primitives) : primitives[i] = name
    THEN Num((CHOOSE i \in 1..Len(primitives) :
                 /\ primitives[i] = name
                 /\ \A j \in 1..Len(primitives) : primitives[j] = name => j <= i) - 1)
    ELSE IF name \in ObjectPrototypeKeys THEN JSObject
    ELSE JSUndefined

(***************************************************************************)
(* enum Tag                                                                *)
(***************************************************************************)
TagInt == 0
TagString == 1
TagSequence == 2
TagPrim0 == 3
TagPrim0Annot == 4
TagPrim1 == 5
TagPrim1Annot == 6
TagPrim2 == 7
TagPrim2Annot == 8
TagPrim == 9
TagBytes == 10

(***************************************************************************)
(* class Writer: each method as the buffer it leaves                        *)
(***************************************************************************)
\* writeBytes with `this.buffer = val.map(...)` for the push.
writeBytesOverwrite(buffer, val) ==
    [k \in 1..Len(val) |-> And255(ToInt32(val[k]))]

writeBytes(buffer, val) ==
    buffer \o [k \in 1..Len(val) |-> And255(ToInt32(val[k]))]

writeUint8(buffer, val) ==
    LET v == ToInt32(val) IN Append(buffer, And255(v))

writeUint16(buffer, val) ==
    LET v == ToInt32(val)
    IN  Append(Append(buffer, And255(Shr(v, 8))), And255(v))

\* writeUint32 with the four bytes pushed least significant first.
writeUint32LittleEndian(buffer, val) ==
    LET v == ToInt32(val)
    IN  Append(Append(Append(Append(buffer, And255(v)),
                             And255(Shr(v, 8))),
                      And255(Shr(v, 16))),
               And255(Shr(v, 24)))

writeUint32(buffer, val) ==
    LET v == ToInt32(val)
    IN  Append(Append(Append(Append(buffer, And255(Shr(v, 24))),
                             And255(Shr(v, 16))),
                      And255(Shr(v, 8))),
               And255(v))

writeInt8(buffer, val) == writeUint8(buffer, val)

writeInt16(buffer, val) == writeUint16(buffer, val)

writeInt32(buffer, val) == writeUint32(buffer, val)


(***************************************************************************)
(* Library calls of encodeBinary, by what they compute                     *)
(***************************************************************************)
IsHighSurrogate(c) == c >= 55296 /\ c <= 56319
IsLowSurrogate(c) == c >= 56320 /\ c <= 57343

\* new TextEncoder().encode(s): the UTF-8 bytes of a string of UTF-16 code
\* units; a surrogate pair is one 4-byte code point, a lone surrogate is
\* replaced by U+FFFD.
RECURSIVE TextEncode(_)
TextEncode(s) ==
    IF s = <<>> THEN <<>>
    ELSE LET c == Head(s) IN
         IF c < 128 THEN <<c>> \o TextEncode(Tail(s))
         ELSE IF c < 2048
              THEN <<192 + (c \div 64), 128 + (c % 64)>> \o TextEncode(Tail(s))
         ELSE IF IsHighSurrogate(c) /\ Len(s) >= 2 /\ IsLowSurrogate(s[2])
              THEN LET cp == 65536 + (c - 55296) * 1024 + (s[2] - 56320)
                   IN  << 240 + (cp \div 262144), 128 + ((cp \div 4096) % 64),
                          128 + ((cp \div 64) % 64), 128 + (cp % 64) >>
                       \o TextEncode(Tail(Tail(s)))
         ELSE IF IsHighSurrogate(c) \/ IsLowSurrogate(c)
              THEN <<239, 191, 189>> \o TextEncode(Tail(s))
         ELSE << 224 + (c \div 4096), 128 + ((c \div 64) % 64), 128 + (c % 64) >>
              \o TextEncode(Tail(s))

\* annots.join(" "): the strings in order, one space (code unit 32) between
\* two neighbours.
RECURSIVE join(_, _)
join(strs, sep) ==
    IF strs = <<>> THEN <<>>
    ELSE IF Len(strs) = 1 THEN strs[1]
    ELSE strs[1] \o sep \o join(Tail(strs), sep)

\* The value of a hexadecimal digit given as a code unit, -1 for any other
\* code unit.
HexDigit(c) ==
    IF c >= 48 /\ c <= 57 THEN c - 48
    ELSE IF c >= 97 /\ c <= 102 THEN c - 87
    ELSE IF c >= 65 /\ c <= 70 THEN c - 55
    ELSE -1

\* parseInt(s, 16) of a slice of at most two code units, none of them white
\* space, a sign or an "x": the longest prefix of hexadecimal digits, NaN
\* when that prefix is empty.
parseInt16(s) ==
    IF s = <<>> \/ HexDigit(s[1]) < 0 THEN NaN
    ELSE IF Len(s) = 1 \/ HexDigit(s[2]) < 0 THEN Num(HexDigit(s[1]))
    ELSE Num(HexDigit(s[1]) * 16 + HexDigit(s[2]))

\* expr.bytes.slice(i, i + 2), i counted from 0
slice2(s, i) == SubSeq(s, i + 1, IF i + 2 <= Len(s) THEN i + 2 ELSE Len(s))

IsDigits(s) == \A k \in 1..Len(s) : s[k] >= 48 /\ s[k] <= 57

RECURSIVE DigitsValue(_, _)
DigitsValue(s, acc) ==
    IF s = <<>> THEN acc ELSE DigitsValue(Tail(s), acc * 10 + (Head(s) - 48))

\* BigInt(text) of a decimal literal: an optional sign, then decimal digits
\* (none at all is 0n).  <<v>> is the value, <<>> the SyntaxError any other
\* text of these characters raises.
BigInt(text) ==
    IF text # <<>> /\ (text[1] = 45 \/ text[1] = 43)
    THEN IF Len(text) >= 2 /\ IsDigits(Tail(text))
         THEN << (IF text[1] = 45 THEN -1 ELSE 1) * DigitsValue(Tail(text), 0) >>
         ELSE <<>>
    ELSE IF IsDigits(text) THEN << DigitsValue(text, 0) >> ELSE <<>>

(***************************************************************************)
(* encodeBinary                                                            *)
(***************************************************************************)
\* The outcome of a call: the writer's buffer as the call leaves it, and the
\* exception it raised, if any (exc = <<>>: it returned).
Returned(buffer) == [buffer |-> buffer, exc |-> <<>>]
Thrown(buffer, e) == [buffer |-> buffer, exc |-> <<e>>]

\* new TypeError(`Can't encode primary: ${expr.prim}`)
TypeError(prim) == [type |-> "TypeError", prim |-> prim]
\* the SyntaxError of BigInt()
SyntaxError == [type |-> "SyntaxError"]

\* VarintByte without `if (i === 0 && sign) byte |= 0x40`.
VarintByteNoSign(val, i, sign) ==
    LET bits == IF i = 0 THEN 6 ELSE 7
        low  == val % (2 ^ bits)
        rest == val \div (2 ^ bits)
    IN  low + (IF rest # 0 THEN 128 ELSE 0)

\* VarintByte with the continuation test `if (val)` made before
\* `val >>= bits`.
VarintByteEarlyTest(val, i, sign) ==
    LET bits == IF i = 0 THEN 6 ELSE 7
        low  == val % (2 ^ bits)
    IN  low + (IF val # 0 THEN 128 ELSE 0) + (IF i = 0 /\ sign THEN 64 ELSE 0)

\* The byte one pass of the do-while loop writes, val being the magnitude
\* left before the pass.
VarintByte(val, i, sign) ==
    LET bits == IF i = 0 THEN 6 ELSE 7
        low  == val % (2 ^ bits)
        rest == val \div (2 ^ bits)
        cont == IF rest # 0 THEN 128 ELSE 0
        sgn  == IF i = 0 /\ sign THEN 64 ELSE 0
    IN  low + cont + sgn

\* What `val >>= bits` leaves.
VarintRest(val, i) == val \div (2 ^ (IF i = 0 THEN 6 ELSE 7))

\* do { ... } while (val)
RECURSIVE VarintLoop(_, _, _, _)
VarintLoop(buffer, val, i, sign) ==
    LET b == writeUint8(buffer, Num(VarintByte(val, i, sign)))
        v == VarintRest(val, i)
    IN  IF v # 0 THEN VarintLoop(b, v, i + 1, sign) ELSE b

\* The hex pairs of a bytes literal, parsed: the array `bytes`.
RECURSIVE HexBytes(_, _)
HexBytes(s, i) ==
    IF i < Len(s) THEN <<parseInt16(slice2(s, i))>> \o HexBytes(s, i + 2) ELSE <<>>

\* expr.args?.length
ArgsLength(expr) ==
    IF "args" \in DOMAIN expr THEN Num(Len(expr.args)) ELSE JSUndefined

\* Truthiness of a number or undefined.
Truthy(v) == v.t = "number" /\ v.n # 0

\* v || 0
OrZero(v) == IF Truthy(v) THEN v.n ELSE 0

\* expr.annots === undefined || expr.annots.length === 0
NoAnnots(expr) ==
    IF "annots" \notin DOMAIN expr THEN TRUE ELSE Len(expr.annots) = 0

\* tag with the annotation test reduced to `expr.annots === undefined`.
tagAnnotsDefined(expr) ==
    IF Truthy(ArgsLength(expr)) \/ 0 < 3
    THEN TagPrim0 + OrZero(ArgsLength(expr)) * 2
         + (IF "annots" \notin DOMAIN expr THEN 0 ELSE 1)
    ELSE TagPrim

\* tag with the condition parenthesised as (expr.args?.length || 0) < 3.
tagParenthesised(expr) ==
    IF OrZero(ArgsLength(expr)) < 3
    THEN TagPrim0 + OrZero(ArgsLength(expr)) * 2 + (IF NoAnnots(expr) THEN 0 ELSE 1)
    ELSE TagPrim

\* const tag: `expr.args?.length || 0 < 3 ? ... : Tag.Prim`, where < binds
\* tighter than ||, so the condition is (expr.args?.length) || (0 < 3).
tag(expr) ==
    IF Truthy(ArgsLength(expr)) \/ 0 < 3
    THEN TagPrim0 + OrZero(ArgsLength(expr)) * 2 + (IF NoAnnots(expr) THEN 0 ELSE 1)
    ELSE TagPrim

\* ArgsInline with `<= 3` for `< 3`.
ArgsInlineUpTo3(args) == Len(args) <= 3

\* expr.args.length < 3: the arguments are encoded one after the other.
ArgsInline(args) == Len(args) < 3

\* WriteAnnots with the length of the joined string (its UTF-16 code units)
\* for the length of its UTF-8 bytes.
WriteAnnotsStringLength(buffer, annots) ==
    LET bytes == TextEncode(join(annots, <<32>>))
    IN  writeBytes(writeUint32(buffer, Num(Len(join(annots, <<32>>)))), NumArray(bytes))

\* The annotation block of lines 159-162.
WriteAnnots(buffer, annots) ==
    LET bytes == TextEncode(join(annots, <<32>>))
    IN  writeBytes(writeUint32(buffer, Num(Len(bytes))), NumArray(bytes))

\* The three writes that end the array branch, w being the scratch writer.
WriteSequence(buffer, w) ==
    writeBytes(writeUint32(writeUint8(buffer, Num(TagSequence)), Num(Len(w))),
               NumArray(w))

RECURSIVE encodeBinary(_, _)
RECURSIVE encodeAll(_, _)

\* for (const v of exprs) { encodeBinary(v, wr); }, from the outcome r so far
encodeAll(exprs, r) ==
    IF exprs = <<>> \/ r.exc # <<>> THEN r
    ELSE encodeAll(Tail(exprs), encodeBinary(Head(exprs), r.buffer))

encodeBinary(expr, wr) ==
    IF "array" \in DOMAIN expr THEN
        LET w == encodeAll(expr.array, Returned(<<>>))
        IN  IF w.exc # <<>> THEN Thrown(wr, w.exc[1])
            ELSE Returned(WriteSequence(wr, w.buffer))
    ELSE IF "string" \in DOMAIN expr THEN
        LET bytes == TextEncode(expr.string)
        IN  Returned(writeBytes(writeUint32(writeUint8(wr, Num(TagString)),
                                            Num(Len(bytes))),
                                NumArray(bytes)))
    ELSE IF "int" \in DOMAIN expr THEN
        LET b0 == writeUint8(wr, Num(TagInt))
            big == BigInt(expr.int)
        IN  IF big = <<>> THEN Thrown(b0, SyntaxError)
            ELSE LET sign == big[1] < 0
                     val  == IF sign THEN -big[1] ELSE big[1]
                 IN  Returned(VarintLoop(b0, val, 0, sign))
    ELSE IF "bytes" \in DOMAIN expr THEN
        LET bytes == HexBytes(expr.bytes, 0)
        IN  Returned(writeBytes(writeUint32(writeUint8(wr, Num(TagBytes)),
                                            Num(Len(bytes))),
                                bytes))
    ELSE
        LET prim == primTags(expr.prim)
        IN  IF prim.t = "undefined" THEN Thrown(wr, TypeError(expr.prim))
            ELSE
              LET b1 == writeUint8(writeUint8(wr, Num(tag(expr))), prim)
                  r2 == IF "args" \in DOMAIN expr
                        THEN IF ArgsInline(expr.args)
                             THEN encodeAll(expr.args, Returned(b1))
                             ELSE encodeBinary([array |-> expr.args], b1)
                        ELSE Returned(b1)
              IN  IF r2.exc # <<>> THEN r2
                  ELSE IF ~NoAnnots(expr)
                       THEN Returned(WriteAnnots(r2.buffer, expr.annots))
                       ELSE r2

\* emitBinary(expr): the returned buffer, or the exception.
emitBinary(expr) == encodeBinary(expr, <<>>)

(***************************************************************************)
(* The trees handed to emitBinary                                          *)
(***************************************************************************)
\* Integer literals -MaxInt..MaxInt, sequences of up to MaxSeqLen items,
\* applications of up to MaxArgs arguments, nesting MaxDepth levels deep.
MaxInt == 70
MaxSeqLen == 3
MaxArgs == 4
MaxDepth == 2

\* Magnitudes around the 2-, 3-, 4- and 5-byte limits of the varint.
BigMagnitudes ==
    { 127, 128, 8191, 8192, 8193, 1048575, 1048576, 134217727, 134217728,
      2147483647 }

\* Argument counts around the point where 3 + 2 * count leaves one byte.
WideArgCounts == { 5, 124, 125, 126, 127, 128 }

\* Item counts that make a sequence's payload longer than 255 bytes.
WideSeqLens == { 90 }

RECURSIVE DecimalDigits(_)
DecimalDigits(n) ==
    IF n < 10 THEN <<48 + n>> ELSE Append(DecimalDigits(n \div 10), 48 + (n % 10))

\* n.toString(): the decimal text of an integer
ToDecimal(n) == IF n < 0 THEN <<45>> \o DecimalDigits(-n) ELSE DecimalDigits(n)

IntNode(n) == [int |-> ToDecimal(n)]

IntValues ==
    (-MaxInt..MaxInt) \cup BigMagnitudes \cup { -m : m \in BigMagnitudes }

\* "-0", "07", "" and "+5": texts BigInt() accepts that no toString() gives
OddIntTexts == { <<45, 48>>, <<48, 55>>, <<>>, <<43, 53>> }

\* "", "a", "a b", e-acute, the euro sign, an emoji (a surrogate pair), a
\* lone high surrogate
Strings ==
    { <<>>, <<97>>, <<97, 32, 98>>, <<233>>, <<8364>>, <<55357, 56832>>, <<55357>> }

\* "", "0a0b", "FF", "0a0" (odd length), "zz" (no hex digit)
HexTexts == { <<>>, <<48, 97, 48, 98>>, <<70, 70>>, <<48, 97, 48>>, <<122, 122>> }

Leaves ==
    { IntNode(n) : n \in IntValues }
    \cup { [int |-> s] : s \in OddIntTexts }
    \cup { [string |-> s] : s \in Strings }
    \cup { [bytes |-> s] : s \in HexTexts }

\* Table entries (the first, the last, two of the spec's scenarios), names
\* in no table, and names every object inherits.
Names ==
    { "parameter", "Pair", "PAIR", "GET_AND_UPDATE", "bogus", "", "toString",
      "__proto__" }

\* none, "", "%a", "%a :b", the euro sign, three annotations
AnnotLists ==
    { <<>>, << <<>> >>, << <<37, 97>> >>, << <<37, 97>>, <<58, 98>> >>,
      << <<8364>> >>, << <<37, 97>>, <<>>, <<64, 233>> >> }

TuplesUpTo(S, n) == UNION { [1..k -> S] : k \in 0..n }

Items == { IntNode(1), IntNode(-65), [string |-> <<97>>], [array |-> <<>>],
           [prim |-> "Unit"] }

ArgItems == { IntNode(1), [string |-> <<97>>], [array |-> <<IntNode(-65)>>] }

Sequences1 == { [array |-> s] : s \in TuplesUpTo(Items, MaxSeqLen) }

Applications1 ==
    { [prim |-> p] : p \in Names }
    \cup { [prim |-> p, annots |-> a] : p \in Names, a \in AnnotLists }
    \cup { [prim |-> p, args |-> s] : p \in Names, s \in TuplesUpTo(ArgItems, MaxArgs) }
    \cup { [prim |-> p, args |-> s, annots |-> a] :
             p \in Names, s \in TuplesUpTo(ArgItems, MaxArgs), a \in AnnotLists }

Repeat(x, n) == [k \in 1..n |-> x]

Wide ==
    { [prim |-> "Pair", args |-> Repeat(IntNode(-65), n)] : n \in WideArgCounts }
    \cup { [prim |-> "Pair", args |-> Repeat(IntNode(-65), n), annots |-> << <<37, 97>> >>] :
             n \in WideArgCounts }
    \cup { [array |-> Repeat(IntNode(-8192), n)] : n \in WideSeqLens }

\* The trees the nesting starts from.
NestBase ==
    { IntNode(-65),
      [array |-> <<IntNode(1), [string |-> <<97>>]>>],
      [prim |-> "Pair", args |-> <<IntNode(1), IntNode(2)>>, annots |-> << <<37, 97>> >>],
      [prim |-> "Pair", args |-> <<IntNode(1), IntNode(2), IntNode(3)>>],
      [prim |-> "PAIR", args |-> <<IntNode(1), IntNode(2), IntNode(3), IntNode(4)>>,
       annots |-> << <<37, 97>>, <<58, 98>> >>],
      [prim |-> "bogus"],
      [prim |-> "toString", args |-> <<IntNode(1)>>] }

\* One more level around each tree of S: as a sequence item, as an argument
\* of a 1-, 2- and 3-argument application.
Wrap(S) ==
    { [array |-> <<t>>] : t \in S }
    \cup { [array |-> <<IntNode(1), t, [string |-> <<97>>]>>] : t \in S }
    \cup { [prim |-> "Left", args |-> <<t>>, annots |-> << <<37, 97>> >>] : t \in S }
    \cup { [prim |-> "Pair", args |-> <<t, IntNode(1)>>] : t \in S }
    \cup { [prim |-> "Pair", args |-> <<IntNode(1), t, [prim |-> "Unit"]>>, annots |-> <<>>] :
             t \in S }

RECURSIVE Nested(_)
Nested(d) == IF d = 0 THEN NestBase ELSE Wrap(Nested(d - 1))

Exprs ==
    Leaves \cup Sequences1 \cup Applications1 \cup Wide
    \cup UNION { Nested(d) : d \in 1..MaxDepth }

(***************************************************************************)
(* State                                                                   *)
(***************************************************************************)
VARIABLES
    expr,     \* the tree handed to emitBinary
    pc,       \* "call": emitBinary not yet run; "running"; "returned"; "thrown"
    result,   \* the outcome: the buffer, and the exception if one was raised
    writers,  \* the Writer objects alive, each as its buffer, oldest first
    stack,    \* the activations of encodeBinary, outermost first
    op        \* the Writer call of the last step: method, arguments, Writer

vars == <<expr, pc, result, writers, stack, op>>

NoOp == [method |-> "none", val |-> <<>>, on |-> 0]

(***************************************************************************)
(* A call of emitBinary, as one step                                       *)
(***************************************************************************)
Init ==
    /\ expr \in Exprs
    /\ pc = "call"
    /\ result = Returned(<<>>)
    /\ writers = <<>>
    /\ stack = <<>>
    /\ op = NoOp

\* emitBinary(expr): a new Writer, encodeBinary(expr, w), return w.buffer
EmitBinary ==
    /\ pc = "call"
    /\ result' = emitBinary(expr)
    /\ pc' = IF result'.exc = <<>> THEN "returned" ELSE "thrown"
    /\ UNCHANGED <<expr, writers, stack, op>>

Next == EmitBinary

Spec == Init /\ [][Next]_vars

(***************************************************************************)
(* The same call, one statement of encodeBinary at a time, after a run of  *)
(* calls on a Writer of its own                                            *)
(***************************************************************************)
\* A Writer exercised on its own holds fewer than MaxBuffer bytes when a
\* method is called on it.
MaxBuffer == 2

\* Values handed to the Writer methods: in and out of the range of one, two
\* and four bytes, negative, and no number at all.
WriteValues ==
    { Num(0), Num(7), Num(255), Num(258), Num(-1), Num(-2), Num(66051),
      Num(16909060), Num(-16909060), Num(2147483647), NaN, JSObject }

WriteArrays ==
    { <<>>, <<Num(1), Num(2), Num(3)>>, <<Num(255), Num(256), Num(-1)>>, <<NaN, Num(513)>> }

\* "1z": a text BigInt() rejects
BadIntText == <<49, 122>>

StepItems == { IntNode(0), IntNode(-8192), [string |-> <<8364>>], [bytes |-> <<48, 97, 122>>] }

StepExprs ==
    StepItems
    \cup { [int |-> BadIntText], [array |-> <<IntNode(1), [int |-> BadIntText]>>] }
    \cup { [array |-> s] : s \in TuplesUpTo(StepItems, 2) }
    \cup { [prim |-> p] : p \in {"Pair", "bogus", "toString"} }
    \cup { [prim |-> "Pair", args |-> s] : s \in TuplesUpTo({IntNode(1), [array |-> <<>>]}, MaxArgs) }
    \cup { [prim |-> "Pair", args |-> s, annots |-> a] :
             s \in TuplesUpTo({IntNode(1)}, MaxArgs), a \in AnnotLists }
    \cup UNION { Nested(d) : d \in 1..MaxDepth }

\* No tree yet: emitBinary has not been called.
NoExpr == [none |-> TRUE]

\* An activation of encodeBinary(expr, wr): where it stands (pc), the loop
\* index i, the locals val and sign of the int branch, the scratch Writer w
\* of the array branch.  wr and w are positions in `writers`.
Frame(e, wr) ==
    [expr |-> e, wr |-> wr, pc |-> "enter", i |-> 0, val |-> 0, sign |-> FALSE, w |-> 0]

Top == stack[Len(stack)]

Running == pc = "running" /\ stack # <<>>

InitSteps ==
    /\ expr = NoExpr
    /\ pc = "idle"
    /\ result = Returned(<<>>)
    /\ writers = << <<>> >>
    /\ stack = <<>>
    /\ op = [method |-> "new", val |-> <<>>, on |-> 1]

\* One call of a Writer method: the buffers and the record of the call.
Write(method, val, on, buffer) ==
    /\ writers' = [writers EXCEPT ![on] = buffer]
    /\ op' = [method |-> method, val |-> val, on |-> on]

\* The activation on top goes on as f.
Continue(f) ==
    /\ stack' = [stack EXCEPT ![Len(stack)] = f]
    /\ UNCHANGED <<expr, pc, result>>

\* The activation on top returns, the Writers being ws; when it is the
\* outermost, emitBinary returns its Writer's buffer.
Return(ws) ==
    /\ stack' = SubSeq(stack, 1, Len(stack) - 1)
    /\ pc' = IF Len(stack) = 1 THEN "returned" ELSE pc
    /\ result' = IF Len(stack) = 1 THEN Returned(ws[1]) ELSE result
    /\ UNCHANGED expr

\* An exception leaves every activation (nothing catches it) and
\* emitBinary; the Writers are lost.
Throw(ws, e) ==
    /\ stack' = <<>>
    /\ pc' = "thrown"
    /\ result' = Thrown(ws[1], e)
    /\ writers' = <<>>
    /\ UNCHANGED expr

\* The Writer methods, called on a Writer of its own.
Exercise(method, val, buffer) ==
    /\ pc = "idle"
    /\ Len(writers[1]) < MaxBuffer
    /\ Write(method, val, 1, buffer)
    /\ UNCHANGED <<expr, pc, result, stack>>

WriterWriteBytes(val) == Exercise("writeBytes", val, writeBytes(writers[1], val))

WriterWriteUint8(val) == Exercise("writeUint8", <<val>>, writeUint8(writers[1], val))

WriterWriteUint16(val) == Exercise("writeUint16", <<val>>, writeUint16(writers[1], val))

WriterWriteUint32(val) == Exercise("writeUint32", <<val>>, writeUint32(writers[1], val))

WriterWriteInt8(val) == Exercise("writeUint8", <<val>>, writeInt8(writers[1], val))

WriterWriteInt16(val) == Exercise("writeUint16", <<val>>, writeInt16(writers[1], val))

WriterWriteInt32(val) == Exercise("writeUint32", <<val>>, writeInt32(writers[1], val))

\* emitBinary(e) is called: `const w = new Writer(); encodeBinary(expr, w)`
Call(e) ==
    /\ pc = "idle"
    /\ expr' = e
    /\ pc' = "running"
    /\ writers' = << <<>> >>
    /\ stack' = << Frame(e, 1) >>
    /\ op' = [method |-> "new", val |-> <<>>, on |-> 1]
    /\ UNCHANGED result

\* Array branch: `const w = new Writer()`
SeqNew ==
    /\ Running /\ Top.pc = "enter" /\ "array" \in DOMAIN Top.expr
    /\ writers' = Append(writers, <<>>)
    /\ op' = [method |-> "new", val |-> <<>>, on |-> Len(writers) + 1]
    /\ Continue([Top EXCEPT !.pc = "items", !.i = 1, !.w = Len(writers) + 1])

\* `for (const v of expr) encodeBinary(v, w)`: the next call
SeqItem ==
    /\ Running /\ Top.pc = "items" /\ Top.i <= Len(Top.expr.array)
    /\ stack' = Append([stack EXCEPT ![Len(stack)] = [Top EXCEPT !.i = Top.i + 1]],
                       Frame(Top.expr.array[Top.i], Top.w))
    /\ op' = NoOp
    /\ UNCHANGED <<expr, pc, result, writers>>

\* `wr.writeUint8(Tag.Sequence)`
SeqTag ==
    /\ Running /\ Top.pc = "items" /\ Top.i > Len(Top.expr.array)
    /\ Write("writeUint8", <<Num(TagSequence)>>, Top.wr,
             writeUint8(writers[Top.wr], Num(TagSequence)))
    /\ Continue([Top EXCEPT !.pc = "length"])

\* `wr.writeUint32(w.length)`
SeqLength ==
    /\ Running /\ Top.pc = "length" /\ "array" \in DOMAIN Top.expr
    /\ Write("writeUint32", <<Num(Len(writers[Top.w]))>>, Top.wr,
             writeUint32(writers[Top.wr], Num(Len(writers[Top.w]))))
    /\ Continue([Top EXCEPT !.pc = "bytes"])

\* `wr.writeBytes(w.buffer); return`: w is garbage from here on
SeqBytes ==
    /\ Running /\ Top.pc = "bytes" /\ "array" \in DOMAIN Top.expr
    /\ LET ws == [writers EXCEPT ![Top.wr] = writeBytes(writers[Top.wr], NumArray(writers[Top.w]))]
       IN  /\ writers' = SubSeq(ws, 1, Top.w - 1)
           /\ Return(ws)
    /\ op' = [method |-> "writeBytes", val |-> NumArray(writers[Top.w]), on |-> Top.wr]

\* String branch: `wr.writeUint8(Tag.String)`
StrTag ==
    /\ Running /\ Top.pc = "enter" /\ "array" \notin DOMAIN Top.expr
    /\ "string" \in DOMAIN Top.expr
    /\ Write("writeUint8", <<Num(TagString)>>, Top.wr,
             writeUint8(writers[Top.wr], Num(TagString)))
    /\ Continue([Top EXCEPT !.pc = "length"])

\* `wr.writeUint32(bytes.length)`
StrLength ==
    /\ Running /\ Top.pc = "length" /\ "string" \in DOMAIN Top.expr
    /\ LET bytes == TextEncode(Top.expr.string)
       IN  Write("writeUint32", <<Num(Len(bytes))>>, Top.wr,
                 writeUint32(writers[Top.wr], Num(Len(bytes))))
    /\ Continue([Top EXCEPT !.pc = "bytes"])

\* `wr.writeBytes(Array.from(bytes)); return`
StrBytes ==
    /\ Running /\ Top.pc = "bytes" /\ "string" \in DOMAIN Top.expr
    /\ LET bytes == NumArray(TextEncode(Top.expr.string))
           ws == [writers EXCEPT ![Top.wr] = writeBytes(writers[Top.wr], bytes)]
       IN  /\ writers' = ws
           /\ op' = [method |-> "writeBytes", val |-> bytes, on |-> Top.wr]
           /\ Return(ws)

\* Int branch: `wr.writeUint8(Tag.Int); let val = BigInt(expr.int); ...`,
\* up to the loop, or out by BigInt's SyntaxError
IntTag ==
    /\ Running /\ Top.pc = "enter" /\ "array" \notin DOMAIN Top.expr
    /\ "string" \notin DOMAIN Top.expr /\ "int" \in DOMAIN Top.expr
    /\ op' = [method |-> "writeUint8", val |-> <<Num(TagInt)>>, on |-> Top.wr]
    /\ LET ws == [writers EXCEPT ![Top.wr] = writeUint8(writers[Top.wr], Num(TagInt))]
           big == BigInt(Top.expr.int)
       IN  IF big = <<>>
           THEN Throw(ws, SyntaxError)
           ELSE /\ writers' = ws
                /\ Continue([Top EXCEPT !.pc = "loop", !.i = 0,
                                        !.sign = big[1] < 0,
                                        !.val = IF big[1] < 0 THEN -big[1] ELSE big[1]])

\* One pass of `do { ... wr.writeUint8(Number(byte)); i++ } while (val)`,
\* and the return when val is 0 after it
IntByte ==
    /\ Running /\ Top.pc = "loop"
    /\ LET byte == Num(VarintByte(Top.val, Top.i, Top.sign))
           v == VarintRest(Top.val, Top.i)
           ws == [writers EXCEPT ![Top.wr] = writeUint8(writers[Top.wr], byte)]
       IN  /\ writers' = ws
           /\ op' = [method |-> "writeUint8", val |-> <<byte>>, on |-> Top.wr]
           /\ IF v # 0
              THEN Continue([Top EXCEPT !.val = v, !.i = Top.i + 1])
              ELSE Return(ws)

\* Bytes branch: the hex pairs parsed, then `wr.writeUint8(Tag.Bytes)`
BytesTag ==
    /\ Running /\ Top.pc = "enter" /\ "array" \notin DOMAIN Top.expr
    /\ "string" \notin DOMAIN Top.expr /\ "int" \notin DOMAIN Top.expr
    /\ "bytes" \in DOMAIN Top.expr
    /\ Write("writeUint8", <<Num(TagBytes)>>, Top.wr,
             writeUint8(writers[Top.wr], Num(TagBytes)))
    /\ Continue([Top EXCEPT !.pc = "length"])

\* `wr.writeUint32(bytes.length)`
BytesLength ==
    /\ Running /\ Top.pc = "length" /\ "bytes" \in DOMAIN Top.expr
    /\ LET bytes == HexBytes(Top.expr.bytes, 0)
       IN  Write("writeUint32", <<Num(Len(bytes))>>, Top.wr,
                 writeUint32(writers[Top.wr], Num(Len(bytes))))
    /\ Continue([Top EXCEPT !.pc = "bytes"])

\* `wr.writeBytes(bytes); return`
BytesBytes ==
    /\ Running /\ Top.pc = "bytes" /\ "bytes" \in DOMAIN Top.expr
    /\ LET bytes == HexBytes(Top.expr.bytes, 0)
           ws == [writers EXCEPT ![Top.wr] = writeBytes(writers[Top.wr], bytes)]
       IN  /\ writers' = ws
           /\ op' = [method |-> "writeBytes", val |-> bytes, on |-> Top.wr]
           /\ Return(ws)

IsPrimFrame(f) ==
    /\ "array" \notin DOMAIN f.expr /\ "string" \notin DOMAIN f.expr
    /\ "int" \notin DOMAIN f.expr /\ "bytes" \notin DOMAIN f.expr

\* Application branch: the lookup and its throw, else `wr.writeUint8(tag)`
PrimTag ==
    /\ Running /\ Top.pc = "enter" /\ IsPrimFrame(Top)
    /\ IF primTags(Top.expr.prim).t = "undefined"
       THEN /\ Throw(writers, TypeError(Top.expr.prim))
            /\ op' = NoOp
       ELSE /\ Write("writeUint8", <<Num(tag(Top.expr))>>, Top.wr,
                     writeUint8(writers[Top.wr], Num(tag(Top.expr))))
            /\ Continue([Top EXCEPT !.pc = "prim"])

\* `wr.writeUint8(prim)`
PrimIndex ==
    /\ Running /\ Top.pc = "prim"
    /\ Write("writeUint8", <<primTags(Top.expr.prim)>>, Top.wr,
             writeUint8(writers[Top.wr], primTags(Top.expr.prim)))
    /\ Continue([Top EXCEPT !.pc = "args", !.i = 1])

\* Lines 148-156 have no call left to make.
ArgsDone(f) ==
    IF "args" \notin DOMAIN f.expr THEN TRUE
    ELSE IF ArgsInline(f.expr.args) THEN f.i > Len(f.expr.args)
    ELSE f.i > 1

\* The next call of lines 148-156: encodeBinary(a, wr) for the next
\* argument, or encodeBinary(expr.args, wr) for them all
PrimArgs ==
    /\ Running /\ Top.pc = "args" /\ ~ArgsDone(Top)
    /\ stack' = Append([stack EXCEPT ![Len(stack)] = [Top EXCEPT !.i = Top.i + 1]],
                       IF ArgsInline(Top.expr.args)
                       THEN Frame(Top.expr.args[Top.i], Top.wr)
                       ELSE Frame([array |-> Top.expr.args], Top.wr))
    /\ op' = NoOp
    /\ UNCHANGED <<expr, pc, result, writers>>

\* No annotations: the function ends
PrimEnd ==
    /\ Running /\ Top.pc = "args" /\ ArgsDone(Top) /\ NoAnnots(Top.expr)
    /\ writers' = writers
    /\ op' = NoOp
    /\ Return(writers)

\* `wr.writeUint32(bytes.length)` of the annotation block
AnnotsLength ==
    /\ Running /\ Top.pc = "args" /\ ArgsDone(Top) /\ ~NoAnnots(Top.expr)
    /\ LET bytes == TextEncode(join(Top.expr.annots, <<32>>))
       IN  Write("writeUint32", <<Num(Len(bytes))>>, Top.wr,
                 writeUint32(writers[Top.wr], Num(Len(bytes))))
    /\ Continue([Top EXCEPT !.pc = "annots"])

\* `wr.writeBytes(Array.from(bytes))` of the annotation block, and the end
AnnotsBytes ==
    /\ Running /\ Top.pc = "annots"
    /\ LET bytes == NumArray(TextEncode(join(Top.expr.annots, <<32>>)))
           ws == [writers EXCEPT ![Top.wr] = writeBytes(writers[Top.wr], bytes)]
       IN  /\ writers' = ws
           /\ op' = [method |-> "writeBytes", val |-> bytes, on |-> Top.wr]
           /\ Return(ws)

NextSteps ==
    \/ \E val \in WriteArrays : WriterWriteBytes(val)
    \/ \E val \in WriteValues : WriterWriteUint8(val)
    \/ \E val \in WriteValues : WriterWriteUint16(val)
    \/ \E val \in WriteValues : WriterWriteUint32(val)
    \/ \E val \in WriteValues : WriterWriteInt8(val)
    \/ \E val \in WriteValues : WriterWriteInt16(val)
    \/ \E val \in WriteValues : WriterWriteInt32(val)
    \/ \E e \in StepExprs : Call(e)
    \/ SeqNew \/ SeqItem \/ SeqTag \/ SeqLength \/ SeqBytes
    \/ StrTag \/ StrLength \/ StrBytes
    \/ IntTag \/ IntByte
    \/ BytesTag \/ BytesLength \/ BytesBytes
    \/ PrimTag \/ PrimIndex \/ PrimArgs \/ PrimEnd \/ AnnotsLength \/ AnnotsBytes

SpecSteps == InitSteps /\ [][NextSteps]_vars

(***************************************************************************)
(* Vocabulary of the properties                                            *)
(***************************************************************************)
IsArray(e) == "array" \in DOMAIN e
IsInt(e) == "int" \in DOMAIN e
IsApplication(e) == "prim" \in DOMAIN e

\* The arguments of an Application node (an absent list is no argument).
Args(e) == IF "args" \in DOMAIN e THEN e.args ELSE <<>>

\* The annotations of an Application node (an absent list is none).
Annots(e) == IF "annots" \in DOMAIN e THEN e.annots ELSE <<>>

\* Every node of the tree e, e included.
RECURSIVE Sub(_)
Sub(e) ==
    {e} \cup
    (IF IsArray(e) THEN UNION { Sub(e.array[k]) : k \in 1..Len(e.array) }
     ELSE IF IsApplication(e) THEN UNION { Sub(Args(e)[k]) : k \in 1..Len(Args(e)) }
     ELSE {})

\* The outcome of encoding node s on its own: the call's result for the
\* root, emitBinary for a node below it.
NodeOut(s) == IF s = expr /\ pc # "call" THEN result ELSE emitBinary(s)

Encodes(s) == NodeOut(s).exc = <<>>

\* The encodings of the nodes of a list, one after the other.
RECURSIVE Concatenated(_)
Concatenated(nodes) ==
    IF nodes = <<>> THEN <<>>
    ELSE NodeOut(Head(nodes)).buffer \o Concatenated(Tail(nodes))

InTable(name) == \E i \in 1..Len(primitives) : primitives[i] = name

\* The byte a table entry stands for: its 0-based position.
IndexOf(name) == (CHOOSE i \in 1..Len(primitives) : primitives[i] = name) - 1

\* The number four bytes spell, most significant first.
BigEndian4(b) == ((b[1] * 256 + b[2]) * 256 + b[3]) * 256 + b[4]

Bytes(b, from, n) == SubSeq(b, from, from + n - 1)

RaisedUnknownPrimitive ==
    pc = "thrown" /\ result.exc[1].type = "TypeError"

\* C1: emitBinary raises the unknown-primitive error exactly when some
\* Application node of the tree, at any depth, bears a name that is not an
\* entry of the primitives table.
C1_UnknownPrimitiveIffNotInTable ==
    pc # "call" =>
        (RaisedUnknownPrimitive <=>
            \E s \in Sub(expr) : IsApplication(s) /\ ~InTable(s.prim))

\* C2: the encoding of every Sequence node, at any depth, is the byte 2, the
\* 4-byte big-endian byte length of its children's concatenated encodings,
\* then those encodings in the children's order.
C2_SequenceLayout ==
    pc # "call" =>
        \A s \in Sub(expr) :
            IsArray(s) /\ Encodes(s) =>
                LET out == NodeOut(s).buffer
                    kids == Concatenated(s.array)
                IN  /\ Len(out) = 5 + Len(kids)
                    /\ out[1] = 2
                    /\ BigEndian4(Bytes(out, 2, 4)) = Len(kids)
                    /\ Bytes(out, 6, Len(kids)) = kids
                    /\ \A k \in 1..Len(out) : out[k] \in 0..255

\* A sequence holding a non-empty sequence and a second item was encoded.
C2_Witness ==
    /\ pc = "returned"
    /\ IsArray(expr)
    /\ Len(expr.array) >= 2
    /\ \E k \in 1..Len(expr.array) :
          IsArray(expr.array[k]) /\ Len(expr.array[k].array) >= 1
    /\ result.buffer[5] > 5

\* The inverse varint codec: the first byte carries 6 magnitude bits and the
\* sign in 0x40, each later byte 7 magnitude bits, 0x80 says another byte
\* follows.  Bytes read and the magnitude they spell, from byte k on, the
\* bits of that byte weighing `weight`.
RECURSIVE VarintMagnitude(_, _, _)
VarintMagnitude(b, k, weight) ==
    IF k > Len(b) THEN [used |-> k - 1, mag |-> 0]
    ELSE LET bits == IF k = 1 THEN 64 ELSE 128
             here == (b[k] % bits) * weight
         IN  IF b[k] >= 128
             THEN LET more == VarintMagnitude(b, k + 1, weight * bits)
                  IN  [used |-> more.used, mag |-> here + more.mag]
             ELSE [used |-> k, mag |-> here]

VarintDecode(b) ==
    LET m == VarintMagnitude(b, 1, 1)
    IN  [used |-> m.used,
         value |-> IF (b[1] \div 64) % 2 = 1 THEN -m.mag ELSE m.mag]

\* The bytes of an Integer node's encoding after its tag byte.
VarintOf(s) == Tail(NodeOut(s).buffer)

\* The Integer nodes of an integer n: those whose text is n's decimal text.
IsIntegerNodeOf(s, n) == IsInt(s) /\ s.int = ToDecimal(n)

\* C3: for every integer n, the bytes after the tag byte 0 of the encoding
\* of the Integer node for n decode, under the inverse codec, to n.
C3_IntegerRoundTrip ==
    pc # "call" =>
        \A s \in Sub(expr) :
            IsInt(s) /\ Encodes(s) =>
                LET d == VarintDecode(VarintOf(s))
                IN  /\ NodeOut(s).buffer[1] = 0
                    /\ d.used = Len(VarintOf(s))
                    /\ (s.int = ToDecimal(d.value)
                        \/ (s.int \in OddIntTexts /\ BigInt(s.int) = <<d.value>>))

\* A negative integer of three or more varint bytes was encoded.
C3_Witness ==
    /\ pc = "returned"
    /\ IsInt(expr)
    /\ \E n \in IntValues : n < -8191 /\ IsIntegerNodeOf(expr, n)
    /\ Len(result.buffer) >= 4

\* The integer an Integer node's text denotes.
IntegerOf(s) == BigInt(s.int)[1]

Magnitude(n) == IF n < 0 THEN -n ELSE n

\* The 7 magnitude bits byte k > 1 of a varint carries: those above the
\* first byte's 6 and the 7 of each byte between.
SevenBitsAt(mag, k) == (mag \div (64 * 128 ^ (k - 2))) % 128

\* C4: the bytes of every Integer node after its tag byte 0 follow the
\* varint layout: 0x80 is set on every byte but the last; 0x40 of the first
\* byte is the sign and is set only for a negative value; the first byte
\* carries the low 6 magnitude bits and each later byte the next 7; a byte
\* follows the first only while magnitude bits remain, so that a multi-byte
\* encoding never ends in a zero byte; zero is the single byte 0x00.
C4_VarintLayout ==
    pc # "call" =>
        \A s \in Sub(expr) :
            IsInt(s) /\ Encodes(s) =>
                LET b == VarintOf(s)
                    n == IntegerOf(s)
                    mag == Magnitude(n)
                IN  /\ NodeOut(s).buffer[1] = 0
                    /\ Len(b) >= 1
                    /\ \A k \in 1..Len(b) : b[k] \in 0..255
                    /\ \A k \in 1..Len(b) : (b[k] >= 128) <=> (k < Len(b))
                    /\ ((b[1] \div 64) % 2 = 1) <=> (n < 0)
                    /\ b[1] % 64 = mag % 64
                    /\ \A k \in 2..Len(b) : b[k] % 128 = SevenBitsAt(mag, k)
                    /\ \A k \in 2..Len(b) : mag \div (64 * 128 ^ (k - 2)) # 0
                    /\ Len(b) > 1 => b[Len(b)] # 0
                    /\ mag = 0 => b = <<0>>

\* An integer whose second varint byte has bit 0x40 set as a magnitude bit
\* and whose encoding is three varint bytes long was encoded.
C4_Witness ==
    /\ pc = "returned"
    /\ IsInt(expr)
    /\ Len(result.buffer) = 4
    /\ (result.buffer[3] \div 64) % 2 = 1
    /\ result.buffer[2] < 192

\* Whether an Application node has at least one annotation.
Annotated(s) == Len(Annots(s)) >= 1

\* The tag of the compact forms: 3, 5 or 7 for 0, 1 or 2 arguments, plus 1
\* with annotations.
CompactTag(argc, annotated) ==
    (CASE argc = 0 -> 3 [] argc = 1 -> 5 [] argc = 2 -> 7)
    + (IF annotated THEN 1 ELSE 0)

\* C5: the encoding of every Application node of 0, 1 or 2 arguments starts
\* with the tag 3, 5 or 7, plus 1 exactly when the node has an annotation
\* (an absent and an empty list alike have none), whatever the name and the
\* arguments are; the 1-byte index of the primitive and the encodings of
\* the arguments, in order, follow.
C5_CompactApplication ==
    pc # "call" =>
        \A s \in Sub(expr) :
            IsApplication(s) /\ Len(Args(s)) <= 2 /\ Encodes(s) =>
                LET out == NodeOut(s).buffer
                    kids == Concatenated(Args(s))
                IN  /\ out[1] = CompactTag(Len(Args(s)), Annotated(s))
                    /\ InTable(s.prim) => out[2] = IndexOf(s.prim)
                    /\ Bytes(out, 3, Len(kids)) = kids
                    /\ ~Annotated(s) => Len(out) = 2 + Len(kids)

\* An annotated application of a table entry to two arguments was encoded.
C5_Witness ==
    /\ pc = "returned"
    /\ IsApplication(expr)
    /\ InTable(expr.prim)
    /\ Len(Args(expr)) = 2
    /\ Annotated(expr)
    /\ result.buffer[1] = 8

\* C6: the tag byte of every Application node of exactly 3 arguments, with
\* or without annotations, is 9.
C6_ThreeArgumentsTag9 ==
    pc # "call" =>
        \A s \in Sub(expr) :
            IsApplication(s) /\ Len(Args(s)) = 3 /\ Encodes(s) =>
                NodeOut(s).buffer[1] = 9

\* C7, as stated: the tag byte of every Application node of 4 or more
\* arguments is 11 or more.
C7_WideTagAtLeast11 ==
    pc # "call" =>
        \A s \in Sub(expr) :
            IsApplication(s) /\ Len(Args(s)) >= 4 /\ Encodes(s) =>
                NodeOut(s).buffer[1] >= 11

\* C7, amended: the tag byte of every Application node of 4 or more
\* arguments is 3 + 2 * (argument count) + (1 if annotated) reduced modulo
\* 256; it is 11 or more whenever that sum is at most 255.
C7_WideTagModulo256 ==
    pc # "call" =>
        \A s \in Sub(expr) :
            IsApplication(s) /\ Len(Args(s)) >= 4 /\ Encodes(s) =>
                LET sum == 3 + 2 * Len(Args(s)) + (IF Annotated(s) THEN 1 ELSE 0)
                    tagByte == NodeOut(s).buffer[1]
                IN  /\ tagByte = sum % 256
                    /\ sum <= 255 => tagByte >= 11

\* An application of 126 or more arguments was encoded with a tag byte
\* among the values 0 to 10.
C7_Witness ==
    /\ pc = "returned"
    /\ IsApplication(expr)
    /\ Len(Args(expr)) >= 126
    /\ result.buffer[1] <= 10

\* C8: after the tag byte of every Application node of 3 or more arguments
\* come the 1-byte index of the primitive and the Sequence encoding of the
\* argument list (the byte 2, the 4-byte big-endian byte length of the
\* arguments' concatenated encodings, those encodings in order); with fewer
\* than 3 arguments the encodings follow the index directly.
C8_ArgumentListBody ==
    pc # "call" =>
        \A s \in Sub(expr) :
            IsApplication(s) /\ Encodes(s) =>
                LET out == NodeOut(s).buffer
                    kids == Concatenated(Args(s))
                IN  /\ InTable(s.prim) => out[2] = IndexOf(s.prim)
                    /\ IF Len(Args(s)) >= 3
                       THEN /\ out[3] = 2
                            /\ BigEndian4(Bytes(out, 4, 4)) = Len(kids)
                            /\ Bytes(out, 8, Len(kids)) = kids
                            /\ ~Annotated(s) => Len(out) = 7 + Len(kids)
                       ELSE /\ Bytes(out, 3, Len(kids)) = kids
                            /\ ~Annotated(s) => Len(out) = 2 + Len(kids)

\* An application of a table entry to 3 arguments, one of them itself a
\* sequence, was encoded.
C8_Witness ==
    /\ pc = "returned"
    /\ IsApplication(expr)
    /\ InTable(expr.prim)
    /\ Len(Args(expr)) = 3
    /\ \E k \in 1..3 : IsArray(expr.args[k])
    /\ result.buffer[3] = 2

\* The annotations in order, a space between two neighbours.
RECURSIVE SpaceSeparated(_)
SpaceSeparated(strs) ==
    IF strs = <<>> THEN <<>>
    ELSE IF Len(strs) = 1 THEN strs[1]
    ELSE SpaceSeparated(SubSeq(strs, 1, Len(strs) - 1)) \o <<32>> \o strs[Len(strs)]

\* The node without its annots property: the same name and arguments, the
\* tag byte aside the same body.
Unannotated(s) == [f \in DOMAIN s \ {"annots"} |-> s[f]]

\* C9: an Application node's encoding ends in an annotation trailer if and
\* only if the node has one or more annotations.  The trailer comes after
\* the primitive index and all argument encodings and is the 4-byte
\* big-endian count of the UTF-8 bytes of the annotations joined in order
\* by single spaces, then those bytes; without annotations (none, or an
\* empty list) the encoding ends right after its body.
C9_AnnotationTrailer ==
    pc # "call" =>
        \A s \in Sub(expr) :
            IsApplication(s) /\ Encodes(s) =>
                LET out == NodeOut(s).buffer
                    body == emitBinary(Unannotated(s)).buffer
                    text == TextEncode(SpaceSeparated(Annots(s)))
                IN  IF Annotated(s)
                    THEN /\ Len(out) = Len(body) + 4 + Len(text)
                         /\ Bytes(out, 2, Len(body) - 1) = Tail(body)
                         /\ BigEndian4(Bytes(out, Len(body) + 1, 4)) = Len(text)
                         /\ Bytes(out, Len(body) + 5, Len(text)) = text
                    ELSE out = body

\* An application with arguments and two annotations, one of them of more
\* UTF-8 bytes than characters, was encoded.
C9_Witness ==
    /\ pc = "returned"
    /\ IsApplication(expr)
    /\ Len(Args(expr)) >= 1
    /\ Len(Annots(expr)) >= 2
    /\ \E k \in 1..Len(expr.annots) :
          Len(TextEncode(expr.annots[k])) > Len(expr.annots[k])

IsPrefix(a, b) == Len(a) <= Len(b) /\ SubSeq(b, 1, Len(a)) = a

\* Writer k is the same object before and after the step.
Persists(k) ==
    /\ k \in DOMAIN writers
    /\ k \in DOMAIN writers'
    /\ ~(op'.method = "new" /\ op'.on = k)

IsWrite(o) == o.method \in {"writeUint8", "writeUint16", "writeUint32", "writeBytes"}

\* The integer four bytes spell as a two's-complement number, most
\* significant byte first.
SignedBigEndian4(b) ==
    (((IF b[1] >= 128 THEN b[1] - 256 ELSE b[1]) * 256 + b[2]) * 256 + b[3]) * 256 + b[4]

\* Byte b is the low byte of the value v: v modulo 256 for a number, 0 for
\* what is no number.
LowByteOf(b, v) ==
    /\ b \in 0..255
    /\ IF v.t = "number" THEN (v.n - b) % 256 = 0 ELSE b = 0

\* What the call o must have appended.
Appended(o, new) ==
    CASE o.method = "writeUint8" ->
            Len(new) = 1 /\ LowByteOf(new[1], o.val[1])
      [] o.method = "writeUint16" ->
            /\ Len(new) = 2
            /\ \A j \in 1..2 : new[j] \in 0..255
            /\ IF o.val[1].t = "number"
               THEN (o.val[1].n - (new[1] * 256 + new[2])) % 65536 = 0
               ELSE new = <<0, 0>>
      [] o.method = "writeUint32" ->
            /\ Len(new) = 4
            /\ \A j \in 1..4 : new[j] \in 0..255
            /\ IF o.val[1].t = "number"
               THEN SignedBigEndian4(new) = o.val[1].n
               ELSE new = <<0, 0, 0, 0>>
      [] o.method = "writeBytes" ->
            /\ Len(new) = Len(o.val)
            /\ \A j \in 1..Len(new) : LowByteOf(new[j], o.val[j])

\* The activations below the top one that run the array branch: each is in
\* its loop, waiting for the encoding of an item.
SequencesOpen == { k \in 1..(Len(stack) - 1) : IsArray(stack[k].expr) }

Innermost(S) == CHOOSE k \in S : \A j \in S : j <= k

C10_Step ==
    \* no byte of a Writer is removed or changed
    /\ \A k \in 1..Len(writers) : Persists(k) => IsPrefix(writers[k], writers'[k])
    \* a method extends its Writer by its bytes and leaves the others alone
    /\ IsWrite(op') /\ op'.on \in DOMAIN writers' =>
          /\ op'.on \in DOMAIN writers
          /\ IsPrefix(writers[op'.on], writers'[op'.on])
          /\ Appended(op', SubSeq(writers'[op'.on], Len(writers[op'.on]) + 1,
                                  Len(writers'[op'.on])))
          /\ \A k \in 1..Len(writers) :
                Persists(k) /\ k # op'.on => writers'[k] = writers[k]
    /\ ~IsWrite(op') =>
          \A k \in 1..Len(writers) : Persists(k) => writers'[k] = writers[k]
    \* while a sequence's items are encoded, every write goes to its scratch
    \* Writer, none to the Writer it was given
    /\ pc = "running" /\ SequencesOpen # {} =>
          LET f == stack[Innermost(SequencesOpen)]
          IN  /\ f.w # f.wr
              /\ op'.method = "new" => op'.on > f.w
              /\ IsWrite(op') => op'.on = f.w
              /\ \A k \in SequencesOpen :
                    stack[k].wr \in DOMAIN writers' =>
                        writers'[stack[k].wr] = writers[stack[k].wr]
    \* the scratch Writer is appended whole, once, after the tag and length
    /\ pc = "running" /\ stack # <<>> /\ IsArray(Top.expr) /\ Top.pc = "bytes" =>
          /\ op'.method = "writeBytes"
          /\ writers'[Top.wr] = writers[Top.wr] \o writers[Top.w]
    \* the output Writer only grows while emitBinary runs, and is returned
    /\ pc = "running" /\ pc' = "running" => IsPrefix(writers[1], writers'[1])
    /\ pc = "running" /\ pc' = "returned" =>
          IsPrefix(writers[1], result'.buffer)

\* C10: the Writer is append-only under any sequence of calls: writeUint8,
\* writeUint16, writeUint32 and writeBytes each leave the bytes already
\* written as they are and add 1, 2, 4 and n bytes at the end, each in
\* 0..255, a multi-byte value most significant byte first; so in an encode
\* the output Writer before a step is a prefix of itself after it, and the
\* items of a Sequence go to its scratch Writer alone until that is appended
\* whole to the Writer the Sequence was given.
C10_WriterAppendOnly == [][C10_Step]_vars

\* The scratch Writer of a sequence nested in a sequence, not empty, has
\* just been appended to the scratch Writer of the outer one.
C10_Witness ==
    /\ pc = "running"
    /\ op.method = "writeBytes"
    /\ op.on >= 2
    /\ Len(op.val) >= 2
    /\ stack # <<>>
    /\ IsArray(Top.expr) /\ Top.pc = "items"

=============================================================================
